---- MODULE Spec2Model ----
(***************************************************************************)
(* Model of the rakuyomi android_ffi backend: the page acquisition calls   *)
(* (download_chapter_pages, create_cbz, rakuyomi_create_cbz) over a shared *)
(* filesystem, and the chapter-list extraction of the two built-in sources.*)
(***************************************************************************)
EXTENDS Integers, Sequences, FiniteSets, TLC

\* ------------------------------------------------------------------ bounds
MaxUrls == 3        \* longest URL list of one acquisition call
MaxConcUrls == 1    \* longest URL list of each of two concurrent create_cbz calls
MaxItems == 3       \* most chapter items matched in one markup

Calls == {1, 2}
Bytes == {1, 2}     \* the distinct response bodies a server may send

VARIABLES
    fn,               \* fn[c]: the function call c runs
    json,             \* json[c]: shape of the urls_json text given to the FFI call
    urls,             \* urls[c]: image_urls / the parsed URL list
    pc,               \* pc[c]: position of call c in its function
    i,                \* i[c]: loop index (0-based) of the download loop
    downloaded,       \* downloaded[c]: downloaded_count / downloaded
    downloaded_files, \* downloaded_files[c]: Vec<(filename, filepath)> of create_cbz
    k,                \* k[c]: index into downloaded_files while packaging
    zip_result,       \* zip_result[c]: result of the spawn_blocking closure
    result,           \* result[c]: what the call returned
    dirs,             \* directories that exist
    files,            \* files on disk: path -> content
    archives,         \* archive files on disk: output path -> zip content
    requests,         \* requests[c]: HTTP requests call c has put on the network
    failed,           \* failed[c]: positions (1-based) whose attempt took an error branch
    succeeded,        \* succeeded[c]: positions (1-based) whose write returned Ok
    body,             \* body[c]: position -> bytes received for it
    chSource,         \* source whose parse_chapters is applied
    chItems,          \* the items the chapter regex matches in the markup, in order
    chOut,            \* the chapter list returned
    chPc,             \* "input" before parse_chapters ran, "parsed" after
    exFn,             \* the per-source FFI function called
    exArgs,           \* Some(id) given as argument, None when a pointer is null or not UTF-8
    exHtml,           \* what the regexes of the parser match in the response text
    exFetch,          \* how the fetch of the call went
    exOut,            \* the JSON text returned to the caller
    exPc,             \* "call" before the function ran, "returned" after
    state,            \* the static STATE, a OnceCell<AppState>: <<>> unset, <<s>> set to s
    config,           \* config[d]: content of d/settings.json ("none": no such file)
    calls,            \* the FFI calls of the application made so far, with what they returned
    setArg,           \* setArg[c]: settings_json of rakuyomi_set_settings call c
    setPc,            \* setPc[c]: position of call c ("off": no such call)
    setRet,           \* setRet[c]: what call c returned
    setBefore,        \* setBefore[c]: the in-memory settings when call c began
    got               \* what the last rakuyomi_get_settings returned

acqVars == <<fn, json, urls, pc, i, downloaded, downloaded_files, k, zip_result,
             result, dirs, files, archives, requests, failed, succeeded, body>>
chVars == <<chSource, chItems, chOut, chPc>>
exVars == <<exFn, exArgs, exHtml, exFetch, exOut, exPc>>
setVars == <<setArg, setPc, setRet, setBefore, got>>
appVars == <<state, config, calls, setVars>>
vars == <<acqVars, chVars, exVars, appVars>>

\* ------------------------------------------------------------- filesystem
\* A URL: its path extension ("" when it has none) and whether it parses as a URL.
UrlPng == [ext |-> "png", valid |-> TRUE]
UrlNoExt == [ext |-> "", valid |-> TRUE]
UrlBad == [ext |-> "", valid |-> FALSE]
UrlSet == {UrlPng, UrlNoExt, UrlBad}

\* Path::new(url).extension().and_then(|e| e.to_str()).unwrap_or("jpg")
ExtOf(url) == IF url.ext = "" THEN "jpg" ELSE url.ext

\* format!("{:03}.{}", i + 1, ext): the 1-based position and the extension
FileName(idx, ext) == <<idx + 1, ext>>

\* format!("{:03}.jpg", i + 1)
FfiFileName(idx) == <<idx + 1, "jpg">>

\* the "path" of the summary, format!("{}/001.jpg", output_dir_str): the name
FfiFirstPage == <<1, "jpg">>

\* "chapter.json"
InfoName == <<0, "chapter.json">>

\* output_dir of call c (each caller passes its own)
OutDir(c) == <<"out", c>>
\* std::env::temp_dir().join(format!("cbz_{}", std::process::id())):
\* the process id is the same for every call of the process
TempDir(c) == <<"tmp", 0>>
\* Path::new(output_path).parent()
ArchiveDir(c) == <<"cbzdir", c>>

Path(d, name) == <<d, name>>
FilesIn(d) == {p \in DOMAIN files : p[1] = d}
PageFilesIn(d) == {p \in FilesIn(d) : p[2] # InfoName}

\* tokio::fs::write(path, content): Ok replaces the file's content
WriteFile(fs, p, content) == [q \in DOMAIN fs \cup {p} |-> IF q = p THEN content ELSE fs[q]]
\* tokio::fs::remove_dir_all(d): the directory and everything in it
RemoveFiles(fs, d) == [q \in {p \in DOMAIN fs : p[1] # d} |-> fs[q]]

\* --------------------------------------------------------------- results
NoResult == [status |-> "none", success |-> FALSE, msg |-> "", keys |-> {}, images |-> 0]
Err(m) == [status |-> "Err", success |-> FALSE, msg |-> m, keys |-> {}, images |-> 0]
Ok(m) == [status |-> "Ok", success |-> TRUE, msg |-> m, keys |-> {}, images |-> 0]
\* serde_json::json!({"success": false, "error": ...})
JsonError(m) == [status |-> "Json", success |-> FALSE, msg |-> m,
                 keys |-> {"success", "error"}, images |-> 0]
\* (mutant of JsonSummary: "success" hard-coded to true)
JsonSummaryAlways(n) == [status |-> "Json", success |-> TRUE, msg |-> "",
                         keys |-> {"success", "path", "folder", "images"}, images |-> n]
\* serde_json::json!({"success": downloaded > 0, "path", "folder", "images": downloaded})
JsonSummary(n) == [status |-> "Json", success |-> n > 0, msg |-> "",
                   keys |-> {"success", "path", "folder", "images"}, images |-> n]

\* ------------------------------------------------- one download attempt
\* What the match over client.get(url).send() / status / bytes / fs::write can do:
\*   send_err       Err from send(): transport failure, or the URL does not parse
\*   status_err     a response whose status is not a success
\*   bytes_err      Err from response.bytes()
\*   write_err      Err from fs::write, no file created
\*   write_partial  Err from fs::write after the file was created (disk full)
\*   ok             the bytes are on disk
Outcomes == {"send_err", "status_err", "bytes_err", "write_err", "write_partial", "ok"}

\* The outcomes the environment allows for url written into directory d.
\* An unparseable URL fails in the request builder; a write needs its directory.
Possible(url, d, o) ==
    /\ ~url.valid => o = "send_err"
    /\ o \in {"write_partial", "ok"} => d \in dirs

\* (mutant of Attempt: the first failed position ends the loop)
AttemptAborting(c, d, nm, o, b) ==
    LET url == urls[c][i[c] + 1]
        pos == i[c] + 1
    IN /\ Possible(url, d, o)
       /\ requests' = [requests EXCEPT ![c] = IF url.valid THEN @ + 1 ELSE @]
       /\ files' = IF o = "ok" THEN WriteFile(files, Path(d, nm), <<"img", b>>) ELSE files
       /\ succeeded' = [succeeded EXCEPT ![c] = IF o = "ok" THEN @ \cup {pos} ELSE @]
       /\ failed' = [failed EXCEPT ![c] = IF o = "ok" THEN @ ELSE @ \cup {pos}]
       /\ body' = [body EXCEPT ![c] =
                     IF o = "ok"
                     THEN [q \in DOMAIN @ \cup {pos} |-> IF q = pos THEN b ELSE @[q]]
                     ELSE @]
       /\ i' = [i EXCEPT ![c] = IF o = "ok" THEN @ + 1 ELSE Len(urls[c])]

\* The attempt at loop index idx of call c, file name nm in directory d,
\* with outcome o and response body b: its effect on disk and on the bookkeeping.
Attempt(c, d, nm, o, b) ==
    LET url == urls[c][i[c] + 1]
        pos == i[c] + 1
    IN /\ Possible(url, d, o)
       /\ requests' = [requests EXCEPT ![c] = IF url.valid THEN @ + 1 ELSE @]
       /\ files' = CASE o = "ok" -> WriteFile(files, Path(d, nm), <<"img", b>>)
                     [] o = "write_partial" -> WriteFile(files, Path(d, nm), <<"trunc", 0>>)
                     [] OTHER -> files
       /\ succeeded' = [succeeded EXCEPT ![c] = IF o = "ok" THEN @ \cup {pos} ELSE @]
       /\ failed' = [failed EXCEPT ![c] = IF o = "ok" THEN @ ELSE @ \cup {pos}]
       /\ body' = [body EXCEPT ![c] =
                     IF o \in {"write_err", "write_partial", "ok"}
                     THEN [q \in DOMAIN @ \cup {pos} |-> IF q = pos THEN b ELSE @[q]]
                     ELSE @]
       /\ i' = [i EXCEPT ![c] = @ + 1]

\* ------------------------------------------------ download_chapter_pages
\* if downloaded_count == 0 { Err } else { Ok(output_dir) }
DcpResult(count) == IF count = 0 THEN Err("Failed to download any images") ELSE Ok("output_dir")

\* is_empty check and create_dir_all(output_dir)
DcpStart(c) ==
    /\ pc[c] = "start" /\ fn[c] = "download_chapter_pages"
    /\ \/ /\ urls[c] = <<>>
          /\ result' = [result EXCEPT ![c] = Err("No images to download")]
          /\ pc' = [pc EXCEPT ![c] = "done"]
          /\ dirs' = dirs
       \/ /\ urls[c] # <<>>
          /\ \/ /\ dirs' = dirs \cup {OutDir(c)}
                /\ pc' = [pc EXCEPT ![c] = "client"]
                /\ result' = result
             \/ /\ dirs' = dirs
                /\ result' = [result EXCEPT ![c] = Err("Failed to create output dir")]
                /\ pc' = [pc EXCEPT ![c] = "done"]
    /\ UNCHANGED <<fn, json, urls, i, downloaded, downloaded_files, k, zip_result,
                   files, archives, requests, failed, succeeded, body, chVars, exVars, appVars>>

\* reqwest::Client::builder().timeout(..).build().map_err(..)?
DcpClient(c) ==
    /\ pc[c] = "client" /\ fn[c] = "download_chapter_pages"
    /\ \/ /\ pc' = [pc EXCEPT ![c] = "loop"]
          /\ result' = result
       \/ /\ result' = [result EXCEPT ![c] = Err("Failed to create HTTP client")]
          /\ pc' = [pc EXCEPT ![c] = "done"]
    /\ UNCHANGED <<fn, json, urls, i, downloaded, downloaded_files, k, zip_result, dirs,
                   files, archives, requests, failed, succeeded, body, chVars, exVars, appVars>>

\* one iteration of the for loop
DcpPage(c) ==
    /\ pc[c] = "loop" /\ fn[c] = "download_chapter_pages"
    /\ i[c] < Len(urls[c])
    /\ \E o \in Outcomes, b \in Bytes :
          /\ Attempt(c, OutDir(c), FileName(i[c], ExtOf(urls[c][i[c] + 1])), o, b)
          /\ downloaded' = [downloaded EXCEPT ![c] = IF o = "ok" THEN @ + 1 ELSE @]
    /\ UNCHANGED <<fn, json, urls, pc, downloaded_files, k, zip_result, result, dirs,
                   archives, chVars, exVars, appVars>>

\* after the loop
DcpFinish(c) ==
    /\ pc[c] = "loop" /\ fn[c] = "download_chapter_pages"
    /\ i[c] = Len(urls[c])
    /\ result' = [result EXCEPT ![c] = DcpResult(downloaded[c])]
    /\ pc' = [pc EXCEPT ![c] = "done"]
    /\ UNCHANGED <<fn, json, urls, i, downloaded, downloaded_files, k, zip_result, dirs,
                   files, archives, requests, failed, succeeded, body, chVars, exVars, appVars>>

\* ------------------------------------------------------------ create_cbz
\* the output path of call c, and the zip file as it is on disk
ArchivePath(c) == c
NewArchive == [entries |-> <<>>, finished |-> FALSE]

\* is_empty check and create_dir_all(&temp_dir)
CbzStart(c) ==
    /\ pc[c] = "start" /\ fn[c] = "create_cbz"
    /\ \/ /\ urls[c] = <<>>
          /\ result' = [result EXCEPT ![c] = Err("No images to download")]
          /\ pc' = [pc EXCEPT ![c] = "done"]
          /\ dirs' = dirs
       \/ /\ urls[c] # <<>>
          /\ \/ /\ dirs' = dirs \cup {TempDir(c)}
                /\ pc' = [pc EXCEPT ![c] = "client"]
                /\ result' = result
             \/ /\ dirs' = dirs
                /\ result' = [result EXCEPT ![c] = Err("Failed to create temp dir")]
                /\ pc' = [pc EXCEPT ![c] = "done"]
    /\ UNCHANGED <<fn, json, urls, i, downloaded, downloaded_files, k, zip_result,
                   files, archives, requests, failed, succeeded, body, chVars, exVars, appVars>>

\* reqwest::Client::builder().timeout(..).build().map_err(..)? : the early
\* return of `?` leaves the function without touching temp_dir
CbzClient(c) ==
    /\ pc[c] = "client" /\ fn[c] = "create_cbz"
    /\ \/ /\ pc' = [pc EXCEPT ![c] = "loop"]
          /\ result' = result
       \/ /\ result' = [result EXCEPT ![c] = Err("Failed to create HTTP client")]
          /\ pc' = [pc EXCEPT ![c] = "done"]
    /\ UNCHANGED <<fn, json, urls, i, downloaded, downloaded_files, k, zip_result, dirs,
                   files, archives, requests, failed, succeeded, body, chVars, exVars, appVars>>

\* one iteration of the for loop: on success push (filename, filepath)
CbzPage(c) ==
    /\ pc[c] = "loop" /\ fn[c] = "create_cbz"
    /\ i[c] < Len(urls[c])
    /\ \E o \in Outcomes, b \in Bytes :
          LET nm == FileName(i[c], ExtOf(urls[c][i[c] + 1]))
          IN /\ Attempt(c, TempDir(c), nm, o, b)
             /\ downloaded_files' = [downloaded_files EXCEPT ![c] =
                    IF o = "ok" THEN Append(@, <<nm, Path(TempDir(c), nm)>>) ELSE @]
    /\ UNCHANGED <<fn, json, urls, pc, downloaded, k, zip_result, result, dirs,
                   archives, chVars, exVars, appVars>>

\* (mutant of CbzAfterLoop: packaging may start before the last URL)
CbzAfterLoopEarly(c) ==
    /\ pc[c] = "loop" /\ fn[c] = "create_cbz"
    /\ i[c] <= Len(urls[c])
    /\ \/ /\ downloaded_files[c] = <<>>
          /\ dirs' = dirs \ {TempDir(c)}
          /\ files' = RemoveFiles(files, TempDir(c))
          /\ result' = [result EXCEPT ![c] = Err("Failed to download any images")]
          /\ pc' = [pc EXCEPT ![c] = "done"]
       \/ /\ downloaded_files[c] # <<>>
          /\ \/ dirs' = dirs \cup {ArchiveDir(c)}
             \/ dirs' = dirs
          /\ pc' = [pc EXCEPT ![c] = "pack_create"]
          /\ UNCHANGED <<files, result>>
    /\ UNCHANGED <<fn, json, urls, i, downloaded, downloaded_files, k, zip_result,
                   archives, requests, failed, succeeded, body, chVars, exVars, appVars>>

\* if downloaded_files.is_empty() { remove_dir_all; return Err } ;
\* otherwise create_dir_all(parent), its error ignored
CbzAfterLoop(c) ==
    /\ pc[c] = "loop" /\ fn[c] = "create_cbz"
    /\ i[c] = Len(urls[c])
    /\ \/ /\ downloaded_files[c] = <<>>
          /\ dirs' = dirs \ {TempDir(c)}
          /\ files' = RemoveFiles(files, TempDir(c))
          /\ result' = [result EXCEPT ![c] = Err("Failed to download any images")]
          /\ pc' = [pc EXCEPT ![c] = "done"]
       \/ /\ downloaded_files[c] # <<>>
          /\ \/ dirs' = dirs \cup {ArchiveDir(c)}
             \/ dirs' = dirs
          /\ pc' = [pc EXCEPT ![c] = "pack_create"]
          /\ UNCHANGED <<files, result>>
    /\ UNCHANGED <<fn, json, urls, i, downloaded, downloaded_files, k, zip_result,
                   archives, requests, failed, succeeded, body, chVars, exVars, appVars>>

\* std::fs::File::create(&cbz_path_owned).map_err(..)? and ZipWriter::new(file)
CbzPackCreate(c) ==
    /\ pc[c] = "pack_create" /\ fn[c] = "create_cbz"
    /\ \/ /\ ArchiveDir(c) \in dirs
          /\ archives' = [a \in DOMAIN archives \cup {ArchivePath(c)} |->
                            IF a = ArchivePath(c) THEN NewArchive ELSE archives[a]]
          /\ pc' = [pc EXCEPT ![c] = "pack_entry"]
          /\ zip_result' = zip_result
       \/ /\ archives' = archives
          /\ zip_result' = [zip_result EXCEPT ![c] = Err("Failed to create CBZ file")]
          /\ pc' = [pc EXCEPT ![c] = "cleanup"]
    /\ UNCHANGED <<fn, json, urls, i, downloaded, downloaded_files, k, result, dirs,
                   files, requests, failed, succeeded, body, chVars, exVars, appVars>>

\* The entry of the archive for one staged file, by how far the loop body got:
\* start_file failed, fs::read failed, write_all failed, or all three succeeded.
PackOutcomes == {"start_err", "read_err", "write_err", "ok"}
EntryAfter(c, o, name, path) ==
    CASE o = "start_err" -> <<>>
      [] o = "read_err" -> <<[name |-> name, data |-> <<"none", 0>>]>>
      [] o = "write_err" -> <<[name |-> name, data |-> <<"trunc", 0>>]>>
      [] OTHER -> <<[name |-> name, data |-> files[path]]>>

\* one iteration of `for (name, file_path) in &downloaded_files`
CbzPackEntry(c) ==
    /\ pc[c] = "pack_entry" /\ fn[c] = "create_cbz"
    /\ k[c] < Len(downloaded_files[c])
    /\ \E o \in PackOutcomes :
          LET name == downloaded_files[c][k[c] + 1][1]
              path == downloaded_files[c][k[c] + 1][2]
          IN /\ o \in {"write_err", "ok"} => path \in DOMAIN files
             /\ archives' = [archives EXCEPT ![ArchivePath(c)].entries =
                                @ \o EntryAfter(c, o, name, path)]
             /\ IF o = "ok"
                THEN /\ k' = [k EXCEPT ![c] = @ + 1]
                     /\ UNCHANGED <<zip_result, pc>>
                ELSE /\ zip_result' = [zip_result EXCEPT ![c] =
                            CASE o = "start_err" -> Err("Failed to start file in zip")
                              [] o = "read_err" -> Err("Failed to read image file")
                              [] OTHER -> Err("Failed to write to zip")]
                     /\ pc' = [pc EXCEPT ![c] = "cleanup"]
                     /\ k' = k
    /\ UNCHANGED <<fn, json, urls, i, downloaded, downloaded_files, result, dirs,
                   files, requests, failed, succeeded, body, chVars, exVars, appVars>>

\* zip.finish().map_err(..)? ; Ok(())
CbzPackFinish(c) ==
    /\ pc[c] = "pack_entry" /\ fn[c] = "create_cbz"
    /\ k[c] = Len(downloaded_files[c])
    /\ \/ /\ archives' = [archives EXCEPT ![ArchivePath(c)].finished = TRUE]
          /\ zip_result' = [zip_result EXCEPT ![c] = Ok("")]
       \/ /\ archives' = archives
          /\ zip_result' = [zip_result EXCEPT ![c] = Err("Failed to finish zip")]
    /\ pc' = [pc EXCEPT ![c] = "cleanup"]
    /\ UNCHANGED <<fn, json, urls, i, downloaded, downloaded_files, k, result, dirs,
                   files, requests, failed, succeeded, body, chVars, exVars, appVars>>

\* remove_dir_all(&temp_dir) and the match over the closure's result
CbzCleanup(c) ==
    /\ pc[c] = "cleanup" /\ fn[c] = "create_cbz"
    /\ dirs' = dirs \ {TempDir(c)}
    /\ files' = RemoveFiles(files, TempDir(c))
    /\ result' = [result EXCEPT ![c] =
                    IF zip_result[c].status = "Ok" THEN Ok("output_path") ELSE zip_result[c]]
    /\ pc' = [pc EXCEPT ![c] = "done"]
    /\ UNCHANGED <<fn, json, urls, i, downloaded, downloaded_files, k, zip_result,
                   archives, requests, failed, succeeded, body, chVars, exVars, appVars>>

\* --------------------------------------------------- rakuyomi_create_cbz
JsonKinds == {"null", "malformed", "string_array"}

\* c_str_to_string(urls_json) and serde_json::from_str::<Vec<String>>(&urls_str)
FfiStart(c) ==
    /\ pc[c] = "start" /\ fn[c] = "rakuyomi_create_cbz"
    /\ CASE json[c] = "null" ->
              /\ result' = [result EXCEPT ![c] = JsonError("Invalid URLs")]
              /\ pc' = [pc EXCEPT ![c] = "done"]
         [] json[c] = "malformed" ->
              /\ result' = [result EXCEPT ![c] = JsonError("Invalid JSON")]
              /\ pc' = [pc EXCEPT ![c] = "done"]
         [] OTHER ->
              /\ result' = result
              /\ pc' = [pc EXCEPT ![c] = "mkdir"]
    /\ UNCHANGED <<fn, json, urls, i, downloaded, downloaded_files, k, zip_result, dirs,
                   files, archives, requests, failed, succeeded, body, chVars, exVars, appVars>>

\* (mutant of FfiMkdir: the error of create_dir_all is ignored)
FfiMkdirIgnoringError(c) ==
    /\ pc[c] = "mkdir" /\ fn[c] = "rakuyomi_create_cbz"
    /\ \/ dirs' = dirs \cup {OutDir(c)}
       \/ dirs' = dirs
    /\ pc' = [pc EXCEPT ![c] = "client"]
    /\ UNCHANGED <<fn, json, urls, i, downloaded, downloaded_files, k, zip_result, result,
                   files, archives, requests, failed, succeeded, body, chVars, exVars, appVars>>

\* tokio::fs::create_dir_all(&output_dir_str)
FfiMkdir(c) ==
    /\ pc[c] = "mkdir" /\ fn[c] = "rakuyomi_create_cbz"
    /\ \/ /\ dirs' = dirs \cup {OutDir(c)}
          /\ pc' = [pc EXCEPT ![c] = "client"]
          /\ result' = result
       \/ /\ dirs' = dirs
          /\ result' = [result EXCEPT ![c] = JsonError("Failed to create directory")]
          /\ pc' = [pc EXCEPT ![c] = "done"]
    /\ UNCHANGED <<fn, json, urls, i, downloaded, downloaded_files, k, zip_result,
                   files, archives, requests, failed, succeeded, body, chVars, exVars, appVars>>

\* match reqwest::Client::builder().timeout(..).build()
FfiClient(c) ==
    /\ pc[c] = "client" /\ fn[c] = "rakuyomi_create_cbz"
    /\ \/ /\ pc' = [pc EXCEPT ![c] = "loop"]
          /\ result' = result
       \/ /\ result' = [result EXCEPT ![c] = JsonError("Failed to create HTTP client")]
          /\ pc' = [pc EXCEPT ![c] = "done"]
    /\ UNCHANGED <<fn, json, urls, i, downloaded, downloaded_files, k, zip_result, dirs,
                   files, archives, requests, failed, succeeded, body, chVars, exVars, appVars>>

\* one iteration of the for loop
FfiPage(c) ==
    /\ pc[c] = "loop" /\ fn[c] = "rakuyomi_create_cbz"
    /\ i[c] < Len(urls[c])
    /\ \E o \in Outcomes, b \in Bytes :
          /\ Attempt(c, OutDir(c), FfiFileName(i[c]), o, b)
          /\ downloaded' = [downloaded EXCEPT ![c] = IF o = "ok" THEN @ + 1 ELSE @]
    /\ UNCHANGED <<fn, json, urls, pc, downloaded_files, k, zip_result, result, dirs,
                   archives, chVars, exVars, appVars>>

\* write chapter.json (its error ignored) and build the returned JSON
FfiFinish(c) ==
    /\ pc[c] = "loop" /\ fn[c] = "rakuyomi_create_cbz"
    /\ i[c] = Len(urls[c])
    /\ \/ /\ OutDir(c) \in dirs
          /\ files' = WriteFile(files, Path(OutDir(c), InfoName), <<"info", downloaded[c]>>)
       \/ files' = files
    /\ result' = [result EXCEPT ![c] = JsonSummary(downloaded[c])]
    /\ pc' = [pc EXCEPT ![c] = "done"]
    /\ UNCHANGED <<fn, json, urls, i, downloaded, downloaded_files, k, zip_result, dirs,
                   archives, requests, failed, succeeded, body, chVars, exVars, appVars>>

\* --------------------------------------------------------- specifications
UrlLists(n) == UNION {[1..m -> UrlSet] : m \in 0..n}
Fns == {"download_chapter_pages", "create_cbz", "rakuyomi_create_cbz"}

\* no per-source FFI function is being called
ExIdle ==
    /\ exFn = "none"
    /\ exArgs = <<>>
    /\ exHtml = <<>>
    /\ exFetch = "none"
    /\ exOut = <<>>
    /\ exPc = "idle"

\* the config directories a caller may name
ConfigDirs == {"a", "b"}
\* no rakuyomi_set_settings call
SetIdle ==
    /\ setArg = [c \in Calls |-> <<>>]
    /\ setPc = [c \in Calls |-> "off"]
    /\ setRet = [c \in Calls |-> 0]
    /\ setBefore = [c \in Calls |-> ""]
    /\ got = ""

\* the process before any FFI call of the application
AppIdle ==
    /\ SetIdle
    /\ state = <<>>
    /\ config = [d \in ConfigDirs |-> "none"]
    /\ calls = <<>>

ChIdle ==
    /\ chSource = "none"
    /\ chItems = <<>>
    /\ chOut = <<>>
    /\ chPc = "idle"

AcqFresh ==
    /\ i = [c \in Calls |-> 0]
    /\ downloaded = [c \in Calls |-> 0]
    /\ downloaded_files = [c \in Calls |-> <<>>]
    /\ k = [c \in Calls |-> 0]
    /\ zip_result = [c \in Calls |-> NoResult]
    /\ result = [c \in Calls |-> NoResult]
    /\ dirs = {}
    /\ files = <<>>
    /\ archives = <<>>
    /\ requests = [c \in Calls |-> 0]
    /\ failed = [c \in Calls |-> {}]
    /\ succeeded = [c \in Calls |-> {}]
    /\ body = [c \in Calls |-> <<>>]

\* One acquisition call (call 1) on an empty disk.
Init ==
    /\ \E f \in Fns, j \in JsonKinds, u \in UrlLists(MaxUrls) :
          /\ f # "rakuyomi_create_cbz" => j = "string_array"
          /\ j # "string_array" => u = <<>>
          /\ fn = [c \in Calls |-> IF c = 1 THEN f ELSE "none"]
          /\ json = [c \in Calls |-> IF c = 1 THEN j ELSE "string_array"]
          /\ urls = [c \in Calls |-> IF c = 1 THEN u ELSE <<>>]
    /\ pc = [c \in Calls |-> IF c = 1 THEN "start" ELSE "idle"]
    /\ AcqFresh
    /\ ChIdle
    /\ ExIdle
    /\ AppIdle

Step(c) ==
    \/ DcpStart(c) \/ DcpClient(c) \/ DcpPage(c) \/ DcpFinish(c)
    \/ CbzStart(c) \/ CbzClient(c) \/ CbzPage(c) \/ CbzAfterLoop(c)
    \/ CbzPackCreate(c) \/ CbzPackEntry(c) \/ CbzPackFinish(c) \/ CbzCleanup(c)
    \/ FfiStart(c) \/ FfiMkdir(c) \/ FfiClient(c) \/ FfiPage(c) \/ FfiFinish(c)

Next == \E c \in Calls : Step(c)

Spec == Init /\ [][Next]_vars

\* Two create_cbz calls of one process running concurrently, each with its own
\* output path, interleaved at their await points.
InitConc ==
    /\ \E u1 \in UrlLists(MaxConcUrls), u2 \in UrlLists(MaxConcUrls) :
          /\ u1 # <<>> /\ u2 # <<>>
          /\ urls = [c \in Calls |-> IF c = 1 THEN u1 ELSE u2]
    /\ fn = [c \in Calls |-> "create_cbz"]
    /\ json = [c \in Calls |-> "string_array"]
    /\ pc = [c \in Calls |-> "start"]
    /\ AcqFresh
    /\ ChIdle
    /\ ExIdle
    /\ AppIdle

StepConc(c) ==
    \/ CbzStart(c) \/ CbzClient(c) \/ CbzPage(c) \/ CbzAfterLoop(c)
    \/ CbzPackCreate(c) \/ CbzPackEntry(c) \/ CbzPackFinish(c) \/ CbzCleanup(c)

NextConc == \E c \in Calls : StepConc(c)

SpecConc == InitConc /\ [][NextConc]_vars

\* ------------------------------------------------------ chapter extraction
\* Text is a sequence of one-character strings; a title is its words, which
\* single spaces separate.
Digits == <<"0", "1", "2", "3", "4", "5", "6", "7", "8", "9">>
UpperCase == <<"A", "B", "C", "D", "E", "F", "G", "H", "I", "J", "K", "L", "M",
               "N", "O", "P", "Q", "R", "S", "T", "U", "V", "W", "X", "Y", "Z">>
LowerCase == <<"a", "b", "c", "d", "e", "f", "g", "h", "i", "j", "k", "l", "m",
               "n", "o", "p", "q", "r", "s", "t", "u", "v", "w", "x", "y", "z">>
IsDigit(ch) == \E d \in 1..Len(Digits) : Digits[d] = ch
DigitVal(ch) == (CHOOSE d \in 1..Len(Digits) : Digits[d] = ch) - 1
ToLower(ch) == IF \E u \in 1..Len(UpperCase) : UpperCase[u] = ch
               THEN LowerCase[CHOOSE u \in 1..Len(UpperCase) : UpperCase[u] = ch]
               ELSE ch
LowerText(s) == [n \in 1..Len(s) |-> ToLower(s[n])]
AllDigits(s) == \A n \in 1..Len(s) : IsDigit(s[n])

RECURSIVE DigitsValue(_)
DigitsValue(s) == IF s = <<>> THEN 0
                  ELSE DigitsValue(SubSeq(s, 1, Len(s) - 1)) * 10 + DigitVal(s[Len(s)])
RECURSIVE Pow10(_)
Pow10(n) == IF n = 0 THEN 1 ELSE 10 * Pow10(n - 1)

\* An f64 as the exact fraction m/d, an infinity, a NaN; "err" is Err(ParseFloatError).
Num(m, d) == [kind |-> "num", m |-> m, d |-> d]
NonFinite(kind) == [kind |-> kind, m |-> 0, d |-> 1]
ParseErr == [kind |-> "err", m |-> 0, d |-> 1]

\* str::parse::<f64>() without the exponent forms:
\*   sign? ( "inf" | "infinity" | "nan" | digits | digits "." digits* | digits* "." digits+ )
\* with the three words in any letter case.
ParseUnsigned(s) ==
    LET low == LowerText(s)
        dots == {n \in 1..Len(s) : s[n] = "."}
    IN IF low = <<"i", "n", "f">> \/ low = <<"i", "n", "f", "i", "n", "i", "t", "y">>
       THEN NonFinite("inf")
       ELSE IF low = <<"n", "a", "n">> THEN NonFinite("nan")
       ELSE IF s # <<>> /\ AllDigits(s) THEN Num(DigitsValue(s), 1)
       ELSE IF Cardinality(dots) = 1 /\ Len(s) > 1
            THEN LET dot == CHOOSE n \in dots : TRUE
                     whole == SubSeq(s, 1, dot - 1)
                     frac == SubSeq(s, dot + 1, Len(s))
                 IN IF AllDigits(whole) /\ AllDigits(frac)
                    THEN Num(DigitsValue(whole) * Pow10(Len(frac)) + DigitsValue(frac),
                             Pow10(Len(frac)))
                    ELSE ParseErr
            ELSE ParseErr
ParseF64(s) ==
    IF s # <<>> /\ s[1] \in {"-", "+"}
    THEN LET r == ParseUnsigned(Tail(s))
         IN IF r.kind = "num" /\ s[1] = "-" THEN Num(0 - r.m, r.d) ELSE r
    ELSE ParseUnsigned(s)

\* a < b for two finite values
NumLess(a, b) == a.m * b.d < b.m * a.d

\* serde_json::json!(x) of an f64: a Number, and Null when x is not finite
JsonNull == [kind |-> "null", m |-> 0, d |-> 1]
JsonF64(x) == IF x.kind = "num" THEN x ELSE JsonNull
\* v.as_f64(): None for Null
\* a.get("chapter_number").and_then(|v| v.as_f64()).unwrap_or(0.0)
SortKey(ch) == IF ch.chapter_number.kind = "num" THEN ch.chapter_number ELSE Num(0, 1)

\* (mutant of CmpLess: Less also for equal keys)
CmpLessOrEqual(a, b) == ~(SortKey(a).m * SortKey(b).d < SortKey(b).m * SortKey(a).d)
\* the comparator of sort_by returns Less for (a, b):
\* b_num.partial_cmp(&a_num) == Less, the keys being finite
CmpLess(a, b) == NumLess(SortKey(b), SortKey(a))

\* Vec::sort_by: a stable sort
RECURSIVE InsertChapter(_, _)
InsertChapter(x, L) ==
    IF L = <<>> THEN <<x>>
    ELSE IF CmpLess(x, Head(L)) THEN <<x>> \o L
    ELSE <<Head(L)>> \o InsertChapter(x, Tail(L))
RECURSIVE SortChapters(_)
SortChapters(L) ==
    IF L = <<>> THEN <<>>
    ELSE InsertChapter(L[Len(L)], SortChapters(SubSeq(L, 1, Len(L) - 1)))

RECURSIVE KeepWithId(_)
KeepWithId(L) ==
    IF L = <<>> THEN <<>>
    ELSE IF Head(L).id # "" THEN <<Head(L)>> \o KeepWithId(Tail(L))
    ELSE KeepWithId(Tail(L))

\* MangaPill: one regex capture is (href, digits, digits after the optional dot)
MangapillChapter(item) ==
    LET chapter_str == IF item.dec = <<>> THEN item.num ELSE item.num \o <<".">> \o item.dec
        parsed == ParseF64(chapter_str)
    IN [id |-> item.href,
        source_id |-> "en.mangapill",
        chapter_number |-> JsonF64(IF parsed.kind = "err" THEN Num(0, 1) ELSE parsed),
        title |-> <<<<"C", "h", "a", "p", "t", "e", "r">>, chapter_str>>,
        volume |-> JsonNull]

MangapillParseChaptersOf(items) ==
    SortChapters(KeepWithId([n \in 1..Len(items) |-> MangapillChapter(items[n])]))

\* WeebCentral: one regex capture is (href, span text); idx is its place among the captures
WordVolume == <<"V", "o", "l", "u", "m", "e">>
\* (mutant of WeebcentralChapter: 0.0 where the number does not parse)
WeebcentralChapterZero(item, idx) ==
    LET title == item.title
        parsed == IF Len(title) >= 2 THEN ParseF64(title[Len(title)]) ELSE ParseErr
        chapter_num == IF parsed.kind = "err" THEN Num(0, 1) ELSE parsed
        volume == IF \E w \in 1..Len(title) : title[w] = WordVolume
                  THEN chapter_num ELSE Num(0 - 1, 1)
    IN [id |-> IF item.base THEN item.rest ELSE "",
        source_id |-> "en.weebcentral",
        chapter_number |-> JsonF64(chapter_num),
        title |-> title,
        volume |-> JsonF64(volume)]
WeebcentralChapter(item, idx) ==
    LET title == item.title
        parsed == IF Len(title) >= 2 THEN ParseF64(title[Len(title)]) ELSE ParseErr
        chapter_num == IF parsed.kind = "err" THEN Num(idx, 1) ELSE parsed
        volume == IF \E w \in 1..Len(title) : title[w] = WordVolume
                  THEN chapter_num ELSE Num(0 - 1, 1)
    IN [id |-> IF item.base THEN item.rest ELSE "",
        source_id |-> "en.weebcentral",
        chapter_number |-> JsonF64(chapter_num),
        title |-> title,
        volume |-> JsonF64(volume)]

WeebcentralParseChaptersOf(items) ==
    SortChapters(KeepWithId([n \in 1..Len(items) |-> WeebcentralChapter(items[n], n - 1)]))

\* \d of the regex crate matches every Unicode decimal digit; f64's parser
\* takes ASCII digits only. The one character U+0663, ARABIC-INDIC DIGIT THREE:
ArabicIndicThree == "U+0663"
\* the captures a markup can hold
WordChapter == <<"C", "h", "a", "p", "t", "e", "r">>
MangapillItems ==
    [href : {"/chapters/1/a", "/chapters/1/b"},
     num : {<<"1">>, <<"2">>, <<"1", "0">>, <<ArabicIndicThree>>},
     dec : {<<>>, <<"5">>}]
Titles ==
    {<<WordChapter, <<"2">>>>,
     <<WordChapter, <<"1", ".", "5">>>>,
     <<WordChapter, <<"-", "1">>>>,
     <<WordChapter, <<"E", "x", "t", "r", "a">>>>,
     <<WordChapter, <<"I", "n", "f", "i", "n", "i", "t", "y">>>>,
     <<WordVolume, <<"1">>>>,
     <<<<"2">>>>}
WeebcentralItems ==
    [base : {TRUE}, rest : {"/chapters/a", "/chapters/b"}, title : Titles]
      \cup [base : {FALSE}, rest : {"/other"}, title : Titles]

ItemLists(S, n) == UNION {[1..m -> S] : m \in 0..n}

MangapillParseChapters ==
    /\ chPc = "input" /\ chSource = "en.mangapill"
    /\ chOut' = MangapillParseChaptersOf(chItems)
    /\ chPc' = "parsed"
    /\ UNCHANGED <<chSource, chItems, acqVars, exVars, appVars>>

WeebcentralParseChapters ==
    /\ chPc = "input" /\ chSource = "en.weebcentral"
    /\ chOut' = WeebcentralParseChaptersOf(chItems)
    /\ chPc' = "parsed"
    /\ UNCHANGED <<chSource, chItems, acqVars, exVars, appVars>>

AcqIdle ==
    /\ fn = [c \in Calls |-> "none"]
    /\ json = [c \in Calls |-> "string_array"]
    /\ urls = [c \in Calls |-> <<>>]
    /\ pc = [c \in Calls |-> "idle"]
    /\ AcqFresh

InitChapters ==
    /\ \/ chSource = "en.mangapill" /\ chItems \in ItemLists(MangapillItems, MaxItems)
       \/ chSource = "en.weebcentral" /\ chItems \in ItemLists(WeebcentralItems, MaxItems)
    /\ chOut = <<>>
    /\ chPc = "input"
    /\ AcqIdle
    /\ ExIdle
    /\ AppIdle

NextChapters == MangapillParseChapters \/ WeebcentralParseChapters

SpecChapters == InitChapters /\ [][NextChapters]_vars

\* ---------------------------------------------------------- text conversions
\* str::replace(pat, rep): every non-overlapping match, left to right
RECURSIVE ReplaceAll(_, _, _)
ReplaceAll(s, pat, rep) ==
    IF Len(s) < Len(pat) THEN s
    ELSE IF SubSeq(s, 1, Len(pat)) = pat
         THEN rep \o ReplaceAll(SubSeq(s, Len(pat) + 1, Len(s)), pat, rep)
         ELSE <<Head(s)>> \o ReplaceAll(Tail(s), pat, rep)

EntAmp == <<"&", "a", "m", "p", ";">>
EntLt == <<"&", "l", "t", ";">>
EntGt == <<"&", "g", "t", ";">>
EntQuot == <<"&", "q", "u", "o", "t", ";">>
EntApos == <<"&", "#", "3", "9", ";">>
EntHexApos == <<"&", "#", "x", "2", "7", ";">>
EntHexSlash == <<"&", "#", "x", "2", "F", ";">>
EntNbsp == <<"&", "n", "b", "s", "p", ";">>

\* mangapill.rs decode_html_entities: the chain of replace calls, in its order
MangapillDecodeHtmlEntities(input) ==
    ReplaceAll(ReplaceAll(ReplaceAll(ReplaceAll(ReplaceAll(ReplaceAll(input,
        EntAmp, <<"&">>), EntLt, <<"<">>), EntGt, <<">">>), EntQuot, <<"\"">>),
        EntApos, <<"'">>), EntNbsp, <<" ">>)

\* weebcentral.rs decode_html_entities: two more entities before &nbsp;
WeebcentralDecodeHtmlEntities(input) ==
    ReplaceAll(ReplaceAll(ReplaceAll(ReplaceAll(ReplaceAll(ReplaceAll(ReplaceAll(ReplaceAll(input,
        EntAmp, <<"&">>), EntLt, <<"<">>), EntGt, <<">">>), EntQuot, <<"\"">>),
        EntApos, <<"'">>), EntHexApos, <<"'">>), EntHexSlash, <<"/">>), EntNbsp, <<" ">>)

IsWhitespace(ch) == ch \in {" ", "\n", "\t"}
RECURSIVE TrimStart(_)
TrimStart(s) == IF s # <<>> /\ IsWhitespace(Head(s)) THEN TrimStart(Tail(s)) ELSE s
RECURSIVE TrimEnd(_)
TrimEnd(s) == IF s # <<>> /\ IsWhitespace(s[Len(s)])
              THEN TrimEnd(SubSeq(s, 1, Len(s) - 1)) ELSE s
\* str::trim()
Trim(s) == TrimEnd(TrimStart(s))

\* tag_regex.replace_all(input, "") for <[^>]+> : a "<", one or more characters
\* that are not ">", and the next ">"
RECURSIVE RemoveTags(_)
RemoveTags(s) ==
    IF s = <<>> THEN <<>>
    ELSE LET closes == {n \in 2..Len(s) : s[n] = ">"}
             close == CHOOSE n \in closes : \A m \in closes : n <= m
         IN IF Head(s) = "<" /\ closes # {} /\ close >= 3
            THEN RemoveTags(SubSeq(s, close + 1, Len(s)))
            ELSE <<Head(s)>> \o RemoveTags(Tail(s))

\* split_whitespace().collect::<Vec<_>>().join(" ")
RECURSIVE JoinWords(_)
JoinWords(s) ==
    LET t == TrimStart(s)
        gaps == {n \in 1..Len(t) : IsWhitespace(t[n])}
        stop == IF gaps = {} THEN Len(t) + 1 ELSE CHOOSE n \in gaps : \A m \in gaps : n <= m
        rest == TrimStart(SubSeq(t, stop, Len(t)))
    IN IF t = <<>> THEN <<>>
       ELSE IF rest = <<>> THEN SubSeq(t, 1, stop - 1)
       ELSE SubSeq(t, 1, stop - 1) \o <<" ">> \o JoinWords(rest)

\* mangapill.rs clean_html
CleanHtml(input) == Trim(JoinWords(RemoveTags(input)))

StartsWith(s, pre) == Len(s) >= Len(pre) /\ SubSeq(s, 1, Len(pre)) = pre

\* Option<T>: None and Some(x)
None == <<>>
Some(x) == <<x>>

\* --------------------------------------------------------- page extraction
\* The markup of a chapter page is its image elements in document order. An
\* element has the attribute that holds its URL, the URL (does it contain
\* "cdn", which suffix ends it), and whether a section tag with x-data and
\* scroll opens between the previous image element and this one.
Page(index, url) == [index |-> index, url |-> url, width |-> 0, height |-> 0]

\* data-src="([^"]*cdn[^"]*)"[^>]*>
MangapillImgMatch(el) == el.attr = "data-src" /\ el.url.cdn

\* mangapill.rs parse_pages: `index` starts at 1 and grows with every push
RECURSIVE MangapillPushPages(_, _)
MangapillPushPages(els, index) ==
    IF els = <<>> THEN <<>>
    ELSE IF MangapillImgMatch(Head(els))
         THEN <<Page(index, Head(els).url)>> \o MangapillPushPages(Tail(els), index + 1)
         ELSE MangapillPushPages(Tail(els), index)
MangapillParsePagesOf(els) == MangapillPushPages(els, 1)

\* url.ends_with(".jpg") || ".jpeg" || ".png" || ".webp"
IsImageUrl(url) == url.ext \in {"jpg", "jpeg", "png", "webp"}

\* weebcentral.rs parse_pages, first loop: <img[^>]*src="([^"]*)"[^>]*> matches
\* every image element (src= also ends data-src=); idx is the place of the
\* match among all matches, and the match is pushed when its URL passes the filter
RECURSIVE WeebcentralImgPages(_, _)
WeebcentralImgPages(els, idx) ==
    IF idx = Len(els) THEN <<>>
    ELSE (IF IsImageUrl(els[idx + 1].url)
          THEN <<Page(idx + 1, els[idx + 1].url)>> ELSE <<>>)
         \o WeebcentralImgPages(els, idx + 1)

\* second loop, when the first pushed nothing: one match per scroll section,
\* capturing the first image element after it; no filter
WeebcentralScrollPages(els) ==
    LET caps == SelectSeq(els, LAMBDA el : el.scroll)
    IN [n \in 1..Len(caps) |-> Page(n, caps[n].url)]

WeebcentralParsePagesOf(els) ==
    LET pages == WeebcentralImgPages(els, 0)
    IN IF pages = <<>> THEN WeebcentralScrollPages(els) ELSE pages

\* ------------------------------------------------------- search extraction
FETCH_LIMIT == 24
MangapillPageSize == 50

\* (mutant of MangapillHasMore: the page size itself does not count as full)
MangapillHasMoreAbove(mangas) == Len(mangas) > MangapillPageSize
\* let has_more = mangas.len() >= 50;
MangapillHasMore(mangas) == Len(mangas) >= MangapillPageSize
\* let has_more = mangas.len() >= FETCH_LIMIT as usize;
WeebcentralHasMore(mangas) == Len(mangas) >= FETCH_LIMIT

SearchJson(mangas, has_more, page) ==
    [kind |-> "object", manga |-> mangas, has_more |-> has_more, page |-> page]

\* MangaPill: one capture is (href, img src, h3 text)
MangapillSearchEntry(cap) ==
    [id |-> cap.href, title |-> MangapillDecodeHtmlEntities(cap.title),
     cover_url |-> cap.src, source_id |-> "en.mangapill"]
RECURSIVE KeepWithIdAndTitle(_)
KeepWithIdAndTitle(L) ==
    IF L = <<>> THEN <<>>
    ELSE IF Head(L).id # "" /\ Head(L).title # <<>>
         THEN <<Head(L)>> \o KeepWithIdAndTitle(Tail(L))
         ELSE KeepWithIdAndTitle(Tail(L))
MangapillParseSearchResultsOf(caps, page) ==
    LET mangas == KeepWithIdAndTitle([n \in 1..Len(caps) |-> MangapillSearchEntry(caps[n])])
    IN SearchJson(mangas, MangapillHasMore(mangas), page)

\* WeebCentral: one capture is (img src, a href, a text); the href is BASE_URL
\* followed by `rest`, or some other URL
WordOfficial == <<"O", "f", "f", "i", "c", "i", "a", "l", " ">>
WeebcentralSearchEntry(cap) ==
    LET decoded == WeebcentralDecodeHtmlEntities(Trim(cap.title))
        title == IF StartsWith(decoded, WordOfficial)
                 THEN Trim(SubSeq(decoded, Len(WordOfficial) + 1, Len(decoded)))
                 ELSE decoded
    IN [id |-> IF cap.href.base THEN cap.href.rest ELSE "", title |-> title,
        cover_url |-> cap.src, source_id |-> "en.weebcentral"]
WeebcentralParseSearchResultsOf(caps, page) ==
    LET mangas == KeepWithIdAndTitle([n \in 1..Len(caps) |-> WeebcentralSearchEntry(caps[n])])
    IN SearchJson(mangas, WeebcentralHasMore(mangas), page)

\* ------------------------------------------------------ details extraction
\* The markup of a manga page is what each regex of parse_manga_details
\* captures in it (None when the regex has no match) and the status words
\* that occur in it.
TextUnknown == <<"U", "n", "k", "n", "o", "w", "n">>

\* (mutant of MangapillParseMangaDetailsOf: no "Unknown" for a missing title)
MangapillParseMangaDetailsBlank(html, manga_id) ==
    [kind |-> "object", id |-> manga_id,
     title |-> IF html.title = None THEN <<>> ELSE MangapillDecodeHtmlEntities(html.title[1]),
     author |-> IF html.author = None THEN <<>> ELSE Trim(html.author[1]),
     description |-> IF html.description = None THEN <<>> ELSE CleanHtml(html.description[1]),
     cover_url |-> IF html.cover = None THEN <<>> ELSE html.cover[1],
     status |-> IF "Completed" \in html.words THEN "completed" ELSE "ongoing",
     source_id |-> "en.mangapill"]

MangapillParseMangaDetailsOf(html, manga_id) ==
    [kind |-> "object", id |-> manga_id,
     title |-> IF html.title = None THEN TextUnknown
               ELSE MangapillDecodeHtmlEntities(html.title[1]),
     author |-> IF html.author = None THEN <<>> ELSE Trim(html.author[1]),
     description |-> IF html.description = None THEN <<>> ELSE CleanHtml(html.description[1]),
     cover_url |-> IF html.cover = None THEN <<>> ELSE html.cover[1],
     status |-> IF "Completed" \in html.words THEN "completed" ELSE "ongoing",
     source_id |-> "en.mangapill"]

\* html.contains("Complete") is true of a text that contains "Completed"
WeebcentralStatus(words) ==
    IF "Complete" \in words \/ "Completed" \in words THEN "completed"
    ELSE IF "Ongoing" \in words THEN "ongoing"
    ELSE IF "Hiatus" \in words THEN "hiatus"
    ELSE IF "Canceled" \in words THEN "canceled"
    ELSE "unknown"

WeebcentralParseMangaDetailsOf(html, manga_id) ==
    [kind |-> "object", id |-> manga_id,
     title |-> IF html.title = None THEN TextUnknown
               ELSE WeebcentralDecodeHtmlEntities(Trim(html.title[1])),
     author |-> IF html.author = None THEN <<>>
                ELSE WeebcentralDecodeHtmlEntities(Trim(html.author[1])),
     description |-> IF html.description = None THEN <<>>
                     ELSE WeebcentralDecodeHtmlEntities(Trim(html.description[1])),
     cover_url |-> IF html.cover = None THEN <<>> ELSE html.cover[1],
     status |-> WeebcentralStatus(html.words),
     nsfw |-> html.words \cap {"Adult", "Hentai", "Mature"} # {},
     source_id |-> "en.weebcentral"]

\* ------------------------------------------------ per-source FFI functions
\* r#"[]"# and r#"{}"#
JsonArray(L) == [kind |-> "array", items |-> L]
\* (mutant of EmptyArrayJson: the failure reaches the caller as an error)
ErrorJson == [kind |-> "error", items |-> <<>>]
EmptyArrayJson == JsonArray(<<>>)
EmptyObjectJson == [kind |-> "object"]

\* The async fetchers (search_mangapill, get_manga_details, get_chapter_list,
\* get_page_list and their weebcentral twins): the client builder, send() or
\* text() returns Err, or the response text reaches the parser. The status of
\* the response is not looked at.
FetchOutcomes == {"client_err", "send_err", "read_err", "ok"}

\* What a wrapper does after c_str_to_string: the match over the fetcher's Result
Wrapped(name, empty, parsed) ==
    /\ exPc = "call" /\ exFn = name
    /\ IF exArgs = None
       THEN exFetch' = "none" /\ exOut' = empty
       ELSE \E o \in FetchOutcomes :
               /\ exFetch' = o
               /\ exOut' = IF o = "ok" THEN parsed ELSE empty
    /\ exPc' = "returned"
    /\ UNCHANGED <<exFn, exArgs, exHtml, acqVars, chVars, appVars>>

SearchPages == {1, 2}

rakuyomi_search_mangapill ==
    \E page \in SearchPages :
        Wrapped("rakuyomi_search_mangapill", EmptyArrayJson,
                MangapillParseSearchResultsOf(exHtml, page))
rakuyomi_get_mangapill_manga ==
    Wrapped("rakuyomi_get_mangapill_manga", EmptyObjectJson,
            MangapillParseMangaDetailsOf(exHtml, exArgs[1]))
rakuyomi_get_mangapill_chapters ==
    Wrapped("rakuyomi_get_mangapill_chapters", EmptyArrayJson,
            JsonArray(MangapillParseChaptersOf(exHtml)))
rakuyomi_get_mangapill_pages ==
    Wrapped("rakuyomi_get_mangapill_pages", EmptyArrayJson,
            JsonArray(MangapillParsePagesOf(exHtml)))
rakuyomi_search_weebcentral ==
    \E page \in SearchPages :
        Wrapped("rakuyomi_search_weebcentral", EmptyArrayJson,
                WeebcentralParseSearchResultsOf(exHtml, page))
rakuyomi_get_weebcentral_manga ==
    Wrapped("rakuyomi_get_weebcentral_manga", EmptyObjectJson,
            WeebcentralParseMangaDetailsOf(exHtml, exArgs[1]))
rakuyomi_get_weebcentral_chapters ==
    Wrapped("rakuyomi_get_weebcentral_chapters", EmptyArrayJson,
            JsonArray(WeebcentralParseChaptersOf(exHtml)))
rakuyomi_get_weebcentral_pages ==
    Wrapped("rakuyomi_get_weebcentral_pages", EmptyArrayJson,
            JsonArray(WeebcentralParsePagesOf(exHtml)))

\* the markups a response can hold
MaxElems == 2       \* most image elements in one chapter page
MaxDropped == 2     \* most search captures with an empty id or title
MaxExItems == 2     \* most chapter items in the markup given to an FFI function

PageUrls == [cdn : BOOLEAN, ext : {"jpg", "gif"}]
ImgElements == [attr : {"src", "data-src"}, url : PageUrls, scroll : BOOLEAN]

TextT == <<"T">>
MangapillCaptures == [href : {"/manga/1"}, src : {"c"}, title : {TextT, <<>>}]
WeebcentralCaptures ==
    [src : {"c"}, href : {[base |-> TRUE, rest |-> "/series/1"]},
     title : {WordOfficial \o TextT, <<" ">>}]
      \cup [src : {"c"}, href : {[base |-> FALSE, rest |-> ""]}, title : {TextT}]
\* lists of captures around the page size: the first captures may be ones the
\* filter drops
SearchSizes(limit) == (0..1) \cup ((limit - 1)..(limit + MaxDropped))
CaptureLists(S, limit) ==
    {[p \in 1..n |-> IF p \in D THEN bad ELSE good] :
        n \in SearchSizes(limit), D \in SUBSET (1..MaxDropped), bad \in S, good \in S}

\* the title and author patterns capture [^<]+ ; MangaPill's description
\* pattern captures any text up to </div>, WeebCentral's [^<]+ within <p>
TextCaptures ==
    {None, Some(<<" ", "A", "&", "a", "m", "p", ";", "B", " ">>),
     Some(<<"O", "&", "#", "x", "2", "7", ";", "N">>)}
StatusWords == {{}, {"Completed"}, {"Ongoing"}, {"Hiatus", "Adult"}}
DetailMarkups ==
    [title : TextCaptures, author : TextCaptures,
     description : {None, Some(<<"<", "b", ">", "D", " ", " ", "E", "&", "a", "m", "p", ";">>)},
     cover : {None, Some(<<"c">>)},
     words : StatusWords]
WeebcentralDetailMarkups ==
    [title : TextCaptures, author : TextCaptures,
     description : {None, Some(<<"D", " ", " ", "E">>)},
     cover : {None, Some(<<"c">>)},
     words : StatusWords]

HtmlOf(f) ==
    CASE f = "rakuyomi_search_mangapill" -> CaptureLists(MangapillCaptures, MangapillPageSize)
      [] f = "rakuyomi_search_weebcentral" -> CaptureLists(WeebcentralCaptures, FETCH_LIMIT)
      [] f = "rakuyomi_get_mangapill_manga" -> DetailMarkups
      [] f = "rakuyomi_get_weebcentral_manga" -> WeebcentralDetailMarkups
      [] f = "rakuyomi_get_mangapill_chapters" -> ItemLists(MangapillItems, MaxExItems)
      [] f = "rakuyomi_get_weebcentral_chapters" -> ItemLists(WeebcentralItems, MaxExItems)
      [] OTHER -> ItemLists(ImgElements, MaxElems)

ExFns ==
    {"rakuyomi_search_mangapill", "rakuyomi_get_mangapill_manga",
     "rakuyomi_get_mangapill_chapters", "rakuyomi_get_mangapill_pages",
     "rakuyomi_search_weebcentral", "rakuyomi_get_weebcentral_manga",
     "rakuyomi_get_weebcentral_chapters", "rakuyomi_get_weebcentral_pages"}
ExIds == {"/x/1", "/x/2"}

\* One call of a per-source FFI function, the server answering with any markup.
InitExtract ==
    /\ exFn \in ExFns
    /\ exArgs \in {None} \cup {Some(a) : a \in ExIds}
    /\ exHtml \in HtmlOf(exFn)
    /\ exFetch = "none"
    /\ exOut = <<>>
    /\ exPc = "call"
    /\ AcqIdle
    /\ ChIdle
    /\ AppIdle

NextExtract ==
    \/ rakuyomi_search_mangapill \/ rakuyomi_get_mangapill_manga
    \/ rakuyomi_get_mangapill_chapters \/ rakuyomi_get_mangapill_pages
    \/ rakuyomi_search_weebcentral \/ rakuyomi_get_weebcentral_manga
    \/ rakuyomi_get_weebcentral_chapters \/ rakuyomi_get_weebcentral_pages

SpecExtract == InitExtract /\ [][NextExtract]_vars

\* ------------------------------------------------- the application's state
MaxCalls == 2       \* most FFI calls of the application in one run

\* config_dir, config_dir.join("sources"), config_dir.join("downloads")
ConfigDir(d) == <<"config", d>>
ConfigSubDirs(d) == {<<"config", d, "sources">>, <<"config", d, "downloads">>}

\* get_default_settings()
DefaultSettings == "default"
\* settings_file.exists() and read_to_string(&settings_file): the stored text,
\* the defaults when there is no file or it cannot be read
SettingsContent(d) ==
    IF config[d] = "stored" THEN <<"stored", d>>
    ELSE IF config[d] \in {"none", "unreadable"} THEN DefaultSettings
    ELSE config[d]

\* AppState { config_dir, initialized: true, settings, settings_file, http_client }:
\* http_client is named by the call that built it
AppState(d, n) ==
    [config_dir |-> d, initialized |-> TRUE, settings |-> SettingsContent(d),
     settings_file |-> <<d, "settings.json">>, http_client |-> n]

Called(f, args, ret, st) == Append(calls, [fn |-> f, args |-> args, ret |-> ret, state |-> st])

\* rakuyomi_init(config_path): -1 for a null or non-UTF-8 path, -2 when the
\* config directory cannot be created, 0 otherwise; STATE.set(state) takes
\* effect only while STATE is unset
rakuyomi_init ==
    /\ Len(calls) < MaxCalls
    /\ \E path \in {None} \cup {Some(d) : d \in ConfigDirs} :
          \/ /\ path = None
             /\ calls' = Called("rakuyomi_init", <<path>>, 0 - 1, state)
             /\ UNCHANGED <<state, dirs>>
          \/ /\ path # None /\ ConfigDir(path[1]) \notin dirs
             /\ calls' = Called("rakuyomi_init", <<path>>, 0 - 2, state)
             /\ UNCHANGED <<state, dirs>>
          \/ /\ path # None
             /\ \E subs \in SUBSET ConfigSubDirs(path[1]) :
                   dirs' = dirs \cup {ConfigDir(path[1])} \cup subs
             /\ state' = IF state = <<>>
                         THEN <<AppState(path[1], Len(calls) + 1)>> ELSE state
             /\ calls' = Called("rakuyomi_init", <<path>>, 0, state')
    /\ UNCHANGED <<fn, json, urls, pc, i, downloaded, downloaded_files, k, zip_result,
                   result, files, archives, requests, failed, succeeded, body,
                   config, setVars, chVars, exVars>>

\* the ids of the sources rakuyomi_get_sources always lists as built-in
BuiltInSources == {"en.mangapill", "en.weebcentral"}
SourceIds == BuiltInSources \cup {"en.other"}

\* `by` names the function that produced the results
AppError(m) == [kind |-> "error", msg |-> m, source_id |-> "", by |-> "", results |-> <<>>]
\* search_mangadex(client, query, source_id): the fixed SearchResponse
SearchMangadex(query, source_id) ==
    [kind |-> "object", msg |-> "", source_id |-> source_id, by |-> "search_mangadex",
     results |-> <<[id |-> "test-manga-1", author |-> "Test Author", query |-> query]>>]

\* rakuyomi_search(source_id, query)
rakuyomi_search ==
    /\ Len(calls) < MaxCalls
    /\ \E source_id \in {None} \cup {Some(s) : s \in SourceIds}, query \in {None, Some("q")} :
          calls' = Called("rakuyomi_search", <<source_id, query>>,
                          IF state = <<>> THEN AppError("not initialized")
                          ELSE IF source_id = None THEN AppError("invalid source_id")
                          ELSE IF query = None THEN AppError("invalid query")
                          ELSE SearchMangadex(query[1], source_id[1]),
                          state)
    /\ UNCHANGED <<state, config, setVars, acqVars, chVars, exVars>>

\* The FFI calls an application makes one after the other, over config
\* directories that hold a settings file, an unreadable one, or none.
InitApp ==
    /\ state = <<>>
    /\ config \in [ConfigDirs -> {"none", "stored", "unreadable"}]
    /\ calls = <<>>
    /\ SetIdle
    /\ AcqIdle
    /\ ChIdle
    /\ ExIdle

NextApp == rakuyomi_init \/ rakuyomi_search

SpecApp == InitApp /\ [][NextApp]_vars

\* ------------------------------------------------------------- the settings
\* the texts a caller may pass: two JSON documents and one that is not JSON
SettingsOne == "{\"v\": 1}"
SettingsTwo == "{\"v\": 2}"
SettingsBroken == "{"
\* a document whose source_lists names two source lists
SettingsLists == "{\"source_lists\": [\"u1\", 7, \"u2\"]}"
\* serde_json::from_str::<serde_json::Value>(text).is_ok()
IsJson(text) == text \in {SettingsOne, SettingsTwo, SettingsLists, DefaultSettings}

\* what rakuyomi_get_settings returns: the locked string, the defaults when
\* STATE is unset
GetSettings == IF state = <<>> THEN DefaultSettings ELSE state[1].settings

rakuyomi_get_settings ==
    /\ got' = GetSettings
    /\ UNCHANGED <<state, config, calls, setArg, setPc, setRet, setBefore,
                   acqVars, chVars, exVars>>

\* rakuyomi_set_settings up to the release of the lock: the checks, and
\* *settings = settings_str.clone() for a text that parses
SetSettingsStart(c) ==
    /\ setPc[c] = "start"
    /\ setBefore' = [setBefore EXCEPT ![c] = GetSettings]
    /\ IF setArg[c] = None
       THEN /\ setRet' = [setRet EXCEPT ![c] = 0 - 1]
            /\ setPc' = [setPc EXCEPT ![c] = "done"]
            /\ state' = state
       ELSE IF state = <<>>
       THEN /\ setRet' = [setRet EXCEPT ![c] = 0 - 4]
            /\ setPc' = [setPc EXCEPT ![c] = "done"]
            /\ state' = state
       ELSE IF ~IsJson(setArg[c][1])
       THEN /\ setRet' = [setRet EXCEPT ![c] = 0 - 3]
            /\ setPc' = [setPc EXCEPT ![c] = "done"]
            /\ state' = state
       ELSE /\ state' = [state EXCEPT ![1].settings = setArg[c][1]]
            /\ setPc' = [setPc EXCEPT ![c] = "write"]
            /\ setRet' = setRet
    /\ UNCHANGED <<config, calls, setArg, got, acqVars, chVars, exVars>>

\* tokio::fs::write(&state.settings_file, settings_str): Ok, Err with the file
\* as it was, or Err after the file was truncated
SetSettingsWrite(c) ==
    /\ setPc[c] = "write"
    /\ \/ /\ config' = [config EXCEPT ![state[1].config_dir] = setArg[c][1]]
          /\ setRet' = [setRet EXCEPT ![c] = 0]
       \/ /\ config' = config
          /\ setRet' = [setRet EXCEPT ![c] = 0 - 2]
       \/ /\ config' = [config EXCEPT ![state[1].config_dir] = ""]
          /\ setRet' = [setRet EXCEPT ![c] = 0 - 2]
    /\ setPc' = [setPc EXCEPT ![c] = "done"]
    /\ UNCHANGED <<state, calls, setArg, setBefore, got, acqVars, chVars, exVars>>

\* Up to two rakuyomi_set_settings calls on two threads, before or after
\* rakuyomi_init, with rakuyomi_get_settings at any time; a config directory
\* has no settings file or one holding a JSON document.
InitSettings ==
    /\ state = <<>>
    /\ config \in [ConfigDirs -> {"none", SettingsTwo}]
    /\ calls = <<>>
    /\ setArg \in [Calls -> {None, Some(SettingsOne), Some(SettingsTwo), Some(SettingsBroken)}]
    /\ setPc \in [Calls -> {"off", "start"}]
    /\ setPc[1] = "off" => setPc[2] = "off"
    /\ \A c \in Calls : setPc[c] = "off" => setArg[c] = None
    /\ setRet = [c \in Calls |-> 0]
    /\ setBefore = [c \in Calls |-> ""]
    /\ got = ""
    /\ AcqIdle
    /\ ChIdle
    /\ ExIdle

NextSettings ==
    \/ rakuyomi_init
    \/ rakuyomi_get_settings
    \/ \E c \in Calls : SetSettingsStart(c) \/ SetSettingsWrite(c)

SpecSettings == InitSettings /\ [][NextSettings]_vars

\* ------------------------------------------------------------- the sources
MaxSrcCalls == 4    \* most FFI calls in one run of the source management

\* settings_json.get("source_lists"): the array of the stored document, empty
\* when the key is absent; the second entry is not a URL
SourceLists(text) == IF text = SettingsLists THEN <<"u1", "not a url", "u2">> ELSE <<>>
\* reqwest::Url::parse(url).is_ok()
UrlParses(url) == url \in {"u1", "u2"}

\* what a source list serves: the elements of its array; ok says whether the
\* element deserializes as a SourceListItem
RemoteItems(url) ==
    IF url = "u1"
    THEN <<[id |-> "x", file |-> "x1", ok |-> TRUE]>>
    ELSE <<[id |-> "y", file |-> "y2", ok |-> FALSE],
           [id |-> "x", file |-> "x2", ok |-> TRUE],
           [id |-> "y", file |-> "y3", ok |-> TRUE]>>

\* the items a scan of the source lists meets, in order, when the lists in
\* reach answer with a JSON array and the others are skipped
RECURSIVE Scan(_, _)
Scan(lists, reach) ==
    IF lists = <<>> THEN <<>>
    ELSE LET url == Head(lists)
             items == IF UrlParses(url) /\ url \in reach
                      THEN SelectSeq(RemoteItems(url), LAMBDA it : it.ok)
                      ELSE <<>>
         IN  [n \in 1..Len(items) |-> [id |-> items[n].id, file |-> items[n].file,
                                       list |-> url]]
             \o Scan(Tail(lists), reach)

\* config_dir.join("sources") and sources_dir.join(format!("{}.aix", id))
SourcesDir(d) == <<"config", d, "sources">>
AixPath(d, id) == Path(SourcesDir(d), <<id, "aix">>)
\* the bytes served for base_url.join(file)
AixContent(item) == <<"aix", item.list, item.file>>

\* rakuyomi_get_sources: the built-in sources, then the items of the lists,
\* then installed = true for every id with an .aix file in the sources directory
BuiltIn(id) == [id |-> id, source_of_source |-> "built-in", installed |-> TRUE]
GetSourcesResult(reach) ==
    IF state = <<>> THEN [sources |-> <<>>, error |-> "not initialized"]
    ELSE IF ~IsJson(state[1].settings) THEN [sources |-> <<>>, error |-> ""]
    ELSE LET d == state[1].config_dir
             items == Scan(SourceLists(state[1].settings), reach)
             all == <<BuiltIn("en.mangapill"), BuiltIn("en.weebcentral")>>
                    \o [n \in 1..Len(items) |->
                          [id |-> items[n].id, source_of_source |-> items[n].list,
                           installed |-> FALSE]]
         IN  [sources |-> [n \in 1..Len(all) |->
                             IF AixPath(d, all[n].id) \in DOMAIN files
                             THEN [all[n] EXCEPT !.installed = TRUE] ELSE all[n]],
              error |-> ""]

rakuyomi_get_sources ==
    /\ Len(calls) < MaxSrcCalls
    /\ \E reach \in SUBSET {"u1", "u2"} :
          calls' = Called("rakuyomi_get_sources", <<>>, GetSourcesResult(reach), state)
    /\ UNCHANGED <<state, config, setVars, acqVars, chVars, exVars>>

\* rakuyomi_install_source(source_id): -1 when STATE is unset, the id is null,
\* the settings are not JSON or no scanned list has the id; -2, -3, -4 when the
\* download fails; then tokio::fs::write of the downloaded bytes, 0 or -1
rakuyomi_install_source ==
    /\ Len(calls) < MaxSrcCalls
    /\ \E id \in {None, Some("x"), Some("y"), Some("z")}, reach \in SUBSET {"u1", "u2"} :
          LET found == IF state = <<>> \/ id = None \/ ~IsJson(state[1].settings)
                       THEN <<>>
                       ELSE SelectSeq(Scan(SourceLists(state[1].settings), reach),
                                      LAMBDA it : it.id = id[1])
              Return(ret) == calls' = Called("rakuyomi_install_source", <<id>>, ret, state)
          IN  IF found = <<>>
              THEN Return(0 - 1) /\ files' = files
              ELSE LET path == AixPath(state[1].config_dir, id[1])
                   IN  \/ \E ret \in {0 - 2, 0 - 3, 0 - 4} : Return(ret) /\ files' = files
                       \/ /\ SourcesDir(state[1].config_dir) \in dirs
                          /\ Return(0)
                          /\ files' = WriteFile(files, path, AixContent(found[1]))
                       \/ Return(0 - 1) /\ files' = files
                       \/ /\ SourcesDir(state[1].config_dir) \in dirs
                          /\ Return(0 - 1)
                          /\ files' = WriteFile(files, path, <<>>)
    /\ UNCHANGED <<fn, json, urls, pc, i, downloaded, downloaded_files, k, zip_result,
                   result, dirs, archives, requests, failed, succeeded, body,
                   state, config, setVars, chVars, exVars>>

\* The source management after start-up: rakuyomi_init on a config directory
\* whose settings file is absent, names two source lists, or was left empty.
InitSources ==
    /\ state = <<>>
    /\ config \in [ConfigDirs -> {"none", SettingsLists, ""}]
    /\ calls = <<>>
    /\ SetIdle
    /\ AcqIdle
    /\ ChIdle
    /\ ExIdle

NextSources ==
    \/ rakuyomi_init
    \/ rakuyomi_get_sources
    \/ rakuyomi_install_source

SpecSources == InitSources /\ [][NextSources]_vars

\* ================================================================ claims
\* the destination of call c's page files, and its succeeded counter
DestDir(c) == IF fn[c] = "create_cbz" THEN TempDir(c) ELSE OutDir(c)
Counted(c) == IF fn[c] = "create_cbz" THEN Len(downloaded_files[c]) ELSE downloaded[c]
\* the download loop of call c has attempted its last URL
LoopEnded(c) == fn[c] \in Fns /\ pc[c] = "loop" /\ i[c] = Len(urls[c])
Returned(c) == fn[c] \in Fns /\ pc[c] = "done"
PositionsOf(paths) == {p[2][1] : p \in paths}

\* C1. Positional stability: when the download loop of a call over N URLs into
\* an empty destination ends with the positions F failed, the destination holds
\* one page file at each position of {1..N} \ F and at no other, and the
\* succeeded counter is N - |F|.
C1_PositionalStability ==
    \A c \in Calls :
        LoopEnded(c) =>
            /\ PositionsOf(PageFilesIn(DestDir(c))) = (1..Len(urls[c])) \ failed[c]
            /\ Cardinality(PageFilesIn(DestDir(c))) = Len(urls[c]) - Cardinality(failed[c])
            /\ Counted(c) = Len(urls[c]) - Cardinality(failed[c])

\* C2. Total-failure guarantee: a returned download_chapter_pages or
\* rakuyomi_create_cbz call that attempted its N >= 1 downloads and received
\* the bytes of none of them reports failure and has created no file in its
\* destination.
C2_TotalFailureNoFiles ==
    \A c \in Calls :
        ( /\ Returned(c)
          /\ fn[c] \in {"download_chapter_pages", "rakuyomi_create_cbz"}
          /\ urls[c] # <<>> /\ i[c] = Len(urls[c])
          /\ DOMAIN body[c] = {} )
        => /\ ~result[c].success
           /\ FilesIn(OutDir(c)) = {}

\* the messages with which create_cbz fails before packaging starts
DownloadPhaseErrors ==
    {"No images to download", "Failed to create temp dir",
     "Failed to create HTTP client", "Failed to download any images"}
\* the messages of the packaging closure
PackagingErrors ==
    {"Failed to create CBZ file", "Failed to start file in zip",
     "Failed to read image file", "Failed to write to zip", "Failed to finish zip"}

\* C3. A returned call over N >= 1 URLs has failed if and only if no position
\* succeeded: the Result of download_chapter_pages, the success flag of
\* rakuyomi_create_cbz, and the download phase of create_cbz (which has failed
\* when create_cbz returned one of the errors that precede packaging).
C3_FailsIffZeroSucceeded ==
    \A c \in Calls :
        (Returned(c) /\ json[c] = "string_array" /\ urls[c] # <<>>) =>
            IF fn[c] = "create_cbz"
            THEN (result[c].msg \in DownloadPhaseErrors) <=> (succeeded[c] = {})
            ELSE (~result[c].success) <=> (succeeded[c] = {})

\* C3 witness: a call returned success although some positions failed.
C3_Witness ==
    \E c \in Calls :
        /\ Returned(c) /\ fn[c] = "rakuyomi_create_cbz"
        /\ succeeded[c] # {} /\ failed[c] # {}
        /\ result[c].success /\ result[c].images = Cardinality(succeeded[c])

\* C4. A returned create_cbz call that had created its staging directory has
\* removed it, whatever the exit path.
C4_TempDirRemoved ==
    \A c \in Calls :
        ( /\ Returned(c) /\ fn[c] = "create_cbz"
          /\ result[c].msg \notin {"No images to download", "Failed to create temp dir"} )
        => TempDir(c) \notin dirs

\* C5. When create_cbz returns a packaging error, no archive file, complete or
\* partial, exists at the output path.
C5_NoPartialArchive ==
    \A c \in Calls :
        (Returned(c) /\ fn[c] = "create_cbz" /\ result[c].msg \in PackagingErrors)
        => ArchivePath(c) \notin DOMAIN archives

\* the n-th smallest element of a set of positions
NthPosition(S, n) == CHOOSE x \in S : Cardinality({y \in S : y < x}) = n - 1

\* C6. Round-trip packaging: when create_cbz returns Ok with K positions
\* succeeded, the archive is finished and holds exactly K entries, the n-th
\* being the n-th succeeded position in ascending order, named by that position
\* and the URL's extension, with the bytes received for that position.
C6_RoundTripPackaging ==
    \A c \in Calls :
        (Returned(c) /\ fn[c] = "create_cbz" /\ result[c].status = "Ok") =>
            /\ ArchivePath(c) \in DOMAIN archives
            /\ LET zip == archives[ArchivePath(c)]
               IN /\ zip.finished
                  /\ Len(zip.entries) = Cardinality(succeeded[c])
                  /\ \A n \in 1..Len(zip.entries) :
                        LET pos == NthPosition(succeeded[c], n)
                        IN /\ zip.entries[n].name = <<pos, ExtOf(urls[c][pos])>>
                           /\ zip.entries[n].data = <<"img", body[c][pos]>>

\* C7. Concurrent calls share no mutable state: every file a call has staged,
\* and has not yet removed itself, is on disk with the bytes that call wrote.
C7_CallsShareNoState ==
    \A c \in Calls :
        (fn[c] = "create_cbz" /\ pc[c] \in {"loop", "pack_create", "pack_entry", "cleanup"}) =>
            \A n \in 1..Len(downloaded_files[c]) :
                LET path == downloaded_files[c][n][2]
                    pos == downloaded_files[c][n][1][1]
                IN /\ path \in DOMAIN files
                   /\ files[path] = <<"img", body[c][pos]>>

\* C8. rakuyomi_create_cbz returns {success: false, error} both when the
\* destination directory could not be created and when the loop ended with no
\* image downloaded.
C8_FailureEnvelope ==
    \A c \in Calls :
        ( /\ Returned(c) /\ fn[c] = "rakuyomi_create_cbz" /\ json[c] = "string_array"
          /\ \/ OutDir(c) \notin dirs
             \/ /\ urls[c] # <<>> /\ i[c] = Len(urls[c]) /\ succeeded[c] = {} )
        => /\ ~result[c].success
           /\ result[c].keys = {"success", "error"}

\* C9. rakuyomi_create_cbz given malformed JSON, or a list holding an
\* unparseable URL, issues no HTTP request and returns a failure.
C9_InvalidInputRejected ==
    \A c \in Calls :
        ( /\ fn[c] = "rakuyomi_create_cbz"
          /\ \/ json[c] = "malformed"
             \/ \E n \in 1..Len(urls[c]) : ~urls[c][n].valid )
        => /\ requests[c] = 0
           /\ Returned(c) => ~result[c].success

\* a >= b for two JSON values: both are numbers and a is not below b
JsonGeq(a, b) == a.kind = "num" /\ b.kind = "num" /\ ~NumLess(a, b)

\* C10. Chapter ordering: in the list parse_chapters returns, every adjacent
\* pair satisfies a[n].chapter_number >= a[n+1].chapter_number.
C10_ChapterOrdering ==
    chPc = "parsed" =>
        \A n \in 1..(Len(chOut) - 1) :
            JsonGeq(chOut[n].chapter_number, chOut[n + 1].chapter_number)

PageFns == {"rakuyomi_get_mangapill_pages", "rakuyomi_get_weebcentral_pages"}
SearchFns == {"rakuyomi_search_mangapill", "rakuyomi_search_weebcentral"}
MangaFns == {"rakuyomi_get_mangapill_manga", "rakuyomi_get_weebcentral_manga"}
ChapterFns == {"rakuyomi_get_mangapill_chapters", "rakuyomi_get_weebcentral_chapters"}
\* the call went through its fetch and returned what the parser made of the markup
Extracted(fns) == exPc = "returned" /\ exFetch = "ok" /\ exFn \in fns

\* C11. Page indices: in the page list of K pages one extraction of either
\* source returns, the n-th page has index n, for n = 1..K, whichever image
\* elements of the markup were left out of the list.
C11_PageIndexContiguous ==
    Extracted(PageFns) =>
        \A n \in 1..Len(exOut.items) : exOut.items[n].index = n

\* C12. has_more: a search extraction returns has_more = true if and only if
\* the manga list it returns holds at least 50 (MangaPill) or 24 (WeebCentral)
\* results.
C12_HasMoreIffFullPage ==
    Extracted(SearchFns) =>
        (exOut.has_more <=>
            Len(exOut.manga) >= (IF exFn = "rakuyomi_search_mangapill" THEN 50 ELSE 24))

\* C12 witness: a MangaPill markup with more than 50 captures of which exactly
\* 50 pass the filter, returned with has_more = true.
C12_Witness ==
    /\ Extracted({"rakuyomi_search_mangapill"})
    /\ Len(exHtml) > 50 /\ Len(exOut.manga) = 50
    /\ exOut.has_more

\* C13. Fallback completeness: for a markup without a title match,
\* parse_manga_details of either source returns an object with title
\* "Unknown" and the requested id; author, description and cover_url are the
\* empty string when their pattern has no match and are extracted when it has.
C13_FallbackCompleteness ==
    (Extracted(MangaFns) /\ exHtml.title = None) =>
        /\ exOut.kind = "object"
        /\ exOut.title = TextUnknown
        /\ exOut.id = exArgs[1]
        /\ (exHtml.author = None) <=> (exOut.author = <<>>)
        /\ (exHtml.description = None) <=> (exOut.description = <<>>)
        /\ (exHtml.cover = None) <=> (exOut.cover_url = <<>>)

\* C13 witness: a WeebCentral markup with an author and a cover but neither
\* title nor description, returned with the author extracted.
C13_Witness ==
    /\ Extracted({"rakuyomi_get_weebcentral_manga"})
    /\ exHtml.title = None /\ exHtml.description = None
    /\ exHtml.author # None /\ exHtml.cover # None
    /\ exOut.title = TextUnknown /\ exOut.author = <<"A", "&", "B">>

\* C14. Idempotent initialization: once a rakuyomi_init call has returned 0,
\* every later rakuyomi_init call given a path returns 0 and leaves STATE as
\* the first call set it.
C14_InitIdempotent ==
    \A m, n \in 1..Len(calls) :
        ( /\ m < n
          /\ calls[m].fn = "rakuyomi_init" /\ calls[m].ret = 0
          /\ calls[n].fn = "rakuyomi_init" /\ calls[n].args[1] # None )
        => /\ calls[n].ret = 0
           /\ calls[n].state = calls[m].state

C16_SourceDispatch ==
    \A n \in 1..Len(calls) :
        ( /\ calls[n].fn = "rakuyomi_search"
          /\ calls[n].state # <<>>
          /\ calls[n].args[1] # None /\ calls[n].args[2] # None )
        => IF calls[n].args[1][1] \in BuiltInSources
           THEN calls[n].ret.by = calls[n].args[1][1]
           ELSE /\ calls[n].ret.kind = "error"
                /\ calls[n].ret.results = <<>>

\* the positions call c has attempted
Attempted(c) == failed[c] \cup succeeded[c]
\* the messages with which a call returns before its download loop
PreLoopErrors ==
    {"No images to download", "Failed to create output dir", "Failed to create temp dir",
     "Failed to create directory", "Failed to create HTTP client", "Invalid URLs",
     "Invalid JSON"}
\* call c has entered its download loop and left it
PastLoop(c) ==
    /\ fn[c] \in Fns
    /\ \/ pc[c] \in {"pack_create", "pack_entry", "cleanup"}
       \/ pc[c] = "done" /\ result[c].msg \notin PreLoopErrors

\* C17. Failure isolation: while a call is in its download loop, the positions
\* attempted are exactly 1..i, each once (as failed or as succeeded, i attempts
\* in all), whatever their outcomes; and a call that has left the loop has
\* attempted every position 1..N.
C17_FailureIsolation ==
    \A c \in Calls :
        /\ (fn[c] \in Fns /\ pc[c] = "loop") =>
              /\ Attempted(c) = 1..i[c]
              /\ failed[c] \cap succeeded[c] = {}
              /\ Cardinality(Attempted(c)) = i[c]
        /\ PastLoop(c) => Attempted(c) = 1..Len(urls[c])

\* C17 witness: a loop over three URLs ended with the first and the third
\* position failed and the second succeeded.
C17_Witness ==
    \E c \in Calls :
        /\ LoopEnded(c) /\ Len(urls[c]) = 3
        /\ failed[c] = {1, 3} /\ succeeded[c] = {2}

\* the extension the file of a URL is to carry
ExpectedExt(url) == IF url.valid /\ url.ext # "" THEN url.ext ELSE "jpg"

\* C18. File names: every page file a call of download_chapter_pages,
\* create_cbz or rakuyomi_create_cbz has written is named by the 1-based
\* position of its URL and the URL's path extension, jpg when the URL has none.
C18_FileNames ==
    \A c \in Calls :
        fn[c] \in Fns =>
            \A p \in PageFilesIn(DestDir(c)) :
                /\ p[2][1] \in 1..Len(urls[c])
                /\ p[2] = <<p[2][1], ExpectedExt(urls[c][p[2][1]])>>

\* C19. Destination failure: a returned download_chapter_pages or
\* rakuyomi_create_cbz call that came to create its destination directory and
\* could not has failed, has attempted no position, has issued no HTTP request
\* and has written no file.
C19_NoDestinationNoDownload ==
    \A c \in Calls :
        ( /\ Returned(c)
          /\ \/ fn[c] = "download_chapter_pages" /\ urls[c] # <<>>
             \/ fn[c] = "rakuyomi_create_cbz" /\ json[c] = "string_array"
          /\ OutDir(c) \notin dirs )
        => /\ ~result[c].success
           /\ result[c].msg \in {"Failed to create output dir", "Failed to create directory"}
           /\ i[c] = 0 /\ requests[c] = 0
           /\ FilesIn(OutDir(c)) = {}

\* C19 witness: rakuyomi_create_cbz over two or more well-formed URLs returned
\* the directory error.
C19_Witness ==
    \E c \in Calls :
        /\ Returned(c) /\ fn[c] = "rakuyomi_create_cbz"
        /\ Len(urls[c]) >= 2 /\ \A n \in 1..Len(urls[c]) : urls[c][n].valid
        /\ OutDir(c) \notin dirs
        /\ result[c].msg = "Failed to create directory"

\* the chapters of the markup in input order, as they are before the sort
ChaptersInInputOrder ==
    IF chSource = "en.mangapill"
    THEN KeepWithId([n \in 1..Len(chItems) |-> MangapillChapter(chItems[n])])
    ELSE KeepWithId([n \in 1..Len(chItems) |-> WeebcentralChapter(chItems[n], n - 1)])
\* two chapter_number values are equal
SameNumber(a, b) ==
    \/ a.kind = "null" /\ b.kind = "null"
    \/ a.kind = "num" /\ b.kind = "num" /\ a.m * b.d = b.m * a.d
WithNumber(L, v) == SelectSeq(L, LAMBDA ch : SameNumber(ch.chapter_number, v))

\* C20. Stable sort: for every chapter_number of the returned list, the
\* chapters with that number appear in the returned list in the order in
\* which they appear in the markup.
C20_StableSort ==
    chPc = "parsed" =>
        \A n \in 1..Len(chOut) :
            WithNumber(chOut, chOut[n].chapter_number)
                = WithNumber(ChaptersInInputOrder, chOut[n].chapter_number)

\* C20 witness: MangaPill chapters b, a, b of one and the same number returned
\* in that order.
C20_Witness ==
    /\ chPc = "parsed" /\ chSource = "en.mangapill" /\ Len(chOut) = 3
    /\ SameNumber(chOut[1].chapter_number, chOut[2].chapter_number)
    /\ SameNumber(chOut[2].chapter_number, chOut[3].chapter_number)
    /\ chOut[1].id = "/chapters/1/b" /\ chOut[2].id = "/chapters/1/a"
    /\ chOut[3].id = "/chapters/1/b"

\* the words parse_manga_details of either source reads a status from
StatusMarkers == {"Complete", "Completed", "Ongoing", "Hiatus", "Canceled"}

\* C21. Status: the status parse_manga_details of either source reports is
\* one of ongoing, completed, hiatus, canceled, unknown, and it is unknown
\* when the markup holds none of the status words.
C21_StatusDefault ==
    Extracted(MangaFns) =>
        /\ exOut.status \in {"ongoing", "completed", "hiatus", "canceled", "unknown"}
        /\ (exHtml.words \cap StatusMarkers = {}) => exOut.status = "unknown"

\* the text the chapter number of an input item is parsed from, and whether
\* the item is kept
ChapterText(item) ==
    IF chSource = "en.mangapill"
    THEN (IF item.dec = <<>> THEN item.num ELSE item.num \o <<".">> \o item.dec)
    ELSE (IF item.title = <<>> THEN <<>> ELSE item.title[Len(item.title)])
ChapterKept(item) == IF chSource = "en.mangapill" THEN item.href # "" ELSE item.base
ChapterId(item) == IF chSource = "en.mangapill" THEN item.href ELSE item.rest
ChapterTitle(item) ==
    IF chSource = "en.mangapill" THEN <<WordChapter, ChapterText(item)>> ELSE item.title

\* C22. Chapter number fallback: every input item with an id is in the
\* returned list, and an item whose chapter text does not parse as a number is
\* there with chapter_number 0.0 (MangaPill) or with its 0-based place among
\* the matched items (WeebCentral).
C22_ChapterNumberFallback ==
    chPc = "parsed" =>
        /\ Len(chOut) = Cardinality({n \in 1..Len(chItems) : ChapterKept(chItems[n])})
        /\ \A n \in 1..Len(chItems) :
              (ChapterKept(chItems[n]) /\ ParseF64(ChapterText(chItems[n])).kind = "err") =>
                  \E m \in 1..Len(chOut) :
                      /\ chOut[m].id = ChapterId(chItems[n])
                      /\ chOut[m].title = ChapterTitle(chItems[n])
                      /\ SameNumber(chOut[m].chapter_number,
                                    IF chSource = "en.mangapill" THEN Num(0, 1)
                                    ELSE Num(n - 1, 1))

\* C22 witness: a WeebCentral list whose third item, "Chapter Extra", is
\* returned with chapter_number 2.
C22_Witness ==
    /\ chPc = "parsed" /\ chSource = "en.weebcentral" /\ Len(chItems) = 3
    /\ chItems[3].base /\ chItems[3].title = <<WordChapter, <<"E", "x", "t", "r", "a">>>>
    /\ \E m \in 1..Len(chOut) :
          /\ chOut[m].title = chItems[3].title
          /\ SameNumber(chOut[m].chapter_number, Num(2, 1))

\* call c of create_cbz is past its download loop
Packaging(c) == fn[c] = "create_cbz" /\ pc[c] \in {"pack_create", "pack_entry", "cleanup", "done"}

\* C23. Packaging follows the downloads: a create_cbz call leaves its download
\* loop for the archive only when the attempt at the last URL is over; from
\* then on it issues no HTTP request; and in the loop a step issues at most
\* one request, for position i + 1, when the attempts at 1..i are all over.
C23_PackagingAfterDownloads ==
    [][\A c \in Calls :
          fn[c] = "create_cbz" =>
              /\ (pc[c] = "loop" /\ pc'[c] # "loop") =>
                    (i[c] = Len(urls[c]) /\ Attempted(c) = 1..Len(urls[c]))
              /\ Packaging(c) => (requests'[c] = requests[c] /\ i'[c] = i[c])
              /\ (requests'[c] # requests[c]) =>
                    /\ pc[c] = "loop"
                    /\ requests'[c] = requests[c] + 1
                    /\ i'[c] = i[c] + 1
                    /\ Attempted(c) = 1..i[c]
                    /\ Attempted(c)' = 1..i'[c]]_vars

\* C23 witness: create_cbz writing archive entries after three requests, one
\* of which failed.
C23_Witness ==
    \E c \in Calls :
        /\ fn[c] = "create_cbz" /\ pc[c] = "pack_entry" /\ k[c] = 1
        /\ requests[c] = 3 /\ failed[c] # {}

\* pat occurs in s
Contains(s, pat) == \E n \in 1..(Len(s) - Len(pat) + 1) : SubSeq(s, n, n + Len(pat) - 1) = pat
\* the entities an extractor is to decode
Entities == {EntAmp, EntLt, EntGt, EntQuot, EntNbsp, EntApos, EntHexApos, EntHexSlash}
Decoded(s) == \A e \in Entities : ~Contains(s, e)
\* no tag, no run of whitespace, no whitespace at either end
Normalized(s) ==
    /\ ~\E n \in 1..Len(s), m \in 1..Len(s) : n + 1 < m /\ s[n] = "<" /\ s[m] = ">"
    /\ ~\E n \in 1..(Len(s) - 1) : IsWhitespace(s[n]) /\ IsWhitespace(s[n + 1])
    /\ s # <<>> => (~IsWhitespace(s[1]) /\ ~IsWhitespace(s[Len(s)]))

\* C24. Text clean-up: the title, author and description parse_manga_details
\* of either source returns hold none of the eight entities, the markup
\* holding each entity once and not nested; and the description holds no tag,
\* no run of whitespace and no whitespace at its ends.
C24_TextDecoded ==
    Extracted(MangaFns) =>
        /\ Decoded(exOut.title)
        /\ Decoded(exOut.author)
        /\ Decoded(exOut.description)
        /\ Normalized(exOut.description)

\* C25: when a rakuyomi_set_settings call that runs alone returns non-zero,
\* rakuyomi_get_settings returns what it returned before the call.
C25_FailedSetKeepsSettings ==
    [][\A c \in Calls :
          (/\ setPc[c] # "done" /\ setPc'[c] = "done"
           /\ setRet'[c] # 0
           /\ \A o \in Calls \ {c} : setPc'[o] = "off")
          => GetSettings' = setBefore'[c]]_vars

\* C26: after two concurrent rakuyomi_set_settings calls with different JSON
\* documents have both returned 0, the settings file holds the in-memory
\* settings.
C26_FileMatchesMemory ==
    (/\ \A c \in Calls : setPc[c] = "done" /\ setRet[c] = 0 /\ setArg[c] # None
     /\ setArg[1] # setArg[2])
    => config[state[1].config_dir] = state[1].settings

\* the step on which a rakuyomi_install_source call returns
InstallReturns ==
    /\ Len(calls') = Len(calls) + 1
    /\ calls'[Len(calls')].fn = "rakuyomi_install_source"

\* C27: rakuyomi_install_source returns 0 only with sources/<id>.aix holding
\* the bytes downloaded for the first scanned entry with the requested id, and
\* a non-zero return leaves the sources directory unchanged.
C27_InstallAllOrNothing ==
    [][InstallReturns =>
         LET call == calls'[Len(calls')]
         IN  IF call.ret = 0
             THEN \E list \in {"u1", "u2"}, file \in {"x1", "x2", "y3"} :
                     /\ files'[AixPath(state[1].config_dir, call.args[1][1])]
                           = <<"aix", list, file>>
                     /\ \E n \in 1..Len(RemoteItems(list)) :
                           /\ RemoteItems(list)[n] =
                                [id |-> call.args[1][1], file |-> file, ok |-> TRUE]
                           /\ \A m \in 1..(n - 1) :
                                 ~(RemoteItems(list)[m].ok
                                   /\ RemoteItems(list)[m].id = call.args[1][1])
             ELSE files' = files]_vars

\* the calls of rakuyomi_get_sources and of rakuyomi_install_source so far
GetSourcesCalls == {n \in 1..Len(calls) : calls[n].fn = "rakuyomi_get_sources"}
InstallCalls == {n \in 1..Len(calls) : calls[n].fn = "rakuyomi_install_source"}

\* C28: after rakuyomi_install_source(id) returned 0 every later
\* rakuyomi_get_sources marks the listed sources with that id installed, and
\* every rakuyomi_get_sources after initialization lists the two built-in
\* sources as installed.
C28_InstalledAndBuiltIns ==
    \A g \in GetSourcesCalls :
       LET sources == calls[g].ret.sources
       IN  /\ \A n \in InstallCalls :
                 (n < g /\ calls[n].ret = 0)
                 => \A s \in 1..Len(sources) :
                       sources[s].id = calls[n].args[1][1] => sources[s].installed
           /\ calls[g].state # <<>>
                 => \A id \in {"en.mangapill", "en.weebcentral"} :
                       \E s \in 1..Len(sources) :
                          sources[s].id = id /\ sources[s].installed

\* C29: when rakuyomi_create_cbz reports success: true, the file named by the
\* returned path exists in the returned folder.
C29_FirstPageExists ==
    \A c \in Calls :
        (Returned(c) /\ fn[c] = "rakuyomi_create_cbz" /\ result[c].success)
        => Path(OutDir(c), FfiFirstPage) \in DOMAIN files

\* C30: a call given an empty URL list reports failure, creates no directory
\* and no file, and issues no request.
C30_EmptyListNoEffect ==
    \A c \in Calls :
        ( /\ Returned(c) /\ urls[c] = <<>>
          /\ fn[c] = "rakuyomi_create_cbz" => json[c] = "string_array" )
        => /\ ~result[c].success
           /\ OutDir(c) \notin dirs /\ TempDir(c) \notin dirs
           /\ FilesIn(OutDir(c)) = {}
           /\ ArchivePath(c) \notin DOMAIN archives
           /\ requests[c] = 0

====
